---- MODULE Spec2Model ----
(***************************************************************************)
(* The tunnel supervisor of kprtfwd (package k8s, src/main.go 230-710):    *)
(* PortForwarder with its two maps and its mutex, the launcher             *)
(* StartPortForward, the kill helper StopPortForward, and the operations   *)
(* Start, Stop, IsRunning, CleanupAll and ReloadSync, called by several    *)
(* concurrent callers.  A step of the model is one critical section of an  *)
(* operation, or the part of it that runs with the mutex released.         *)
(***************************************************************************)
EXTENDS Integers, Sequences, FiniteSets, TLC

VARIABLES
    RunningForwards,   \* pf.RunningForwards: config index -> runningInfo
    activeLocalPorts,  \* pf.activeLocalPorts: local port -> config index
    Mutex,             \* pf.Mutex: the caller holding it, or NoOwner
    orphans,           \* the indices a kubectl started for them runs with no
                       \* handle left
    pc,                \* each caller's position in the operation it runs
    frame,             \* each caller's arguments and locals
    returned,          \* the call that returns in this step and its result
    restart,           \* each caller's RestartRunningForwards in progress
    store              \* the ConfigStore: its lists, snapshots and active project

vars == <<RunningForwards, activeLocalPorts, Mutex, orphans, pc, frame, returned,
          restart, store>>

---------------------------------------------------------------------------
(* Bounds of the model. *)

\* Config indices (slots) are 0..MaxSlot; config lists hold up to MaxSlot+1 entries.
MaxSlot == 1

\* The number of concurrent callers of the PortForwarder.
NumCallers == 2

Slots == 0..MaxSlot
Callers == 1..NumCallers

---------------------------------------------------------------------------
(* Values. *)

NoOwner == 0

Nil == "nil"
ErrPortInUse == "local port already in use"
ErrLocalPortReserved == "local port is already reserved by another active forward"
ErrStartFailed == "kubectl start failed"
ErrExitedQuickly == "kubectl exited quickly"
ErrStderr == "stderr output"
ErrKill == "kill failed"
ErrNilCmd == "StartPortForward returned nil command without error"
ErrStopChanged == "failed to stop changed config"
ErrStopRemoved == "failed to stop removed config"

PortForwardConfig(id, ctx, ns, svc, remote, local) ==
    [ID |-> id, Context |-> ctx, Namespace |-> ns, Service |-> svc,
     PortRemote |-> remote, PortLocal |-> local]

PortForwardParams(cfg, localPort) ==
    [Context |-> cfg.Context, Namespace |-> cfg.Namespace, Service |-> cfg.Service,
     PortRemote |-> cfg.PortRemote, PortLocal |-> localPort]

BaseConfig == PortForwardConfig("a", "ctx1", "ns1", "svc1", 80, 8080)

\* The definitions the callers start tunnels with: two tunnels on two local ports.
Configs ==
    { BaseConfig,
      [BaseConfig EXCEPT !.ID = "b", !.PortLocal = 9090] }

\* The definitions of a reloaded configuration: those above, and BaseConfig
\* edited in one field.
NewConfigs ==
    Configs \cup
    { [BaseConfig EXCEPT !.ID = "c"],
      [BaseConfig EXCEPT !.Context = "ctx2"],
      [BaseConfig EXCEPT !.Namespace = "ns2"],
      [BaseConfig EXCEPT !.Service = "svc2"],
      [BaseConfig EXCEPT !.PortRemote = 81],
      [BaseConfig EXCEPT !.PortLocal = 8081] }

NoConfig == PortForwardConfig("", "", "", "", 0, 0)

\* The lists the configuration store hands out: validateConfig
\* (src/pkg/config/store.go 238-252) rejects a list with a duplicate ID.
ListsOver(S) ==
    { l \in UNION { [1..n -> S] : n \in 0..(MaxSlot + 1) } :
        \A a, b \in DOMAIN l : a # b => l[a].ID # l[b].ID }

ConfigLists == ListsOver(Configs)

NewConfigLists == ListsOver(NewConfigs)

\* ReloadResult, lines 587-592, as ReloadSync initialises it (lines 601-606).
EmptyResult == [Stopped |-> <<>>, Started |-> <<>>, Updated |-> <<>>, Errors |-> <<>>]

\* The call that returns in a step: the operation, its index and definition
\* arguments, the error it returns (for IsRunning the boolean, as a string),
\* for ReloadSync the ReloadResult and what the pass found at each position
\* of the two lists, and the indices whose process the call sent a kill to.
\* RestartRunningForwards in progress: the definitions it was given, the
\* indices found running, those still to do, and the RestartResult so far
\* (restarted: the indices RestartedCount has counted).
NoRestart ==
    [configs |-> <<>>, running |-> {}, todo |-> {},
     RestartedCount |-> 0, Errors |-> <<>>, restarted |-> {}]

\* What one project selection did: the indices running before it, those of
\* the selected project's forwards, those Start was called for, and the
\* count and the number of error messages startProjectPortForwards returns.
NoSelection ==
    [all |-> FALSE, before |-> {}, project |-> {}, attempted |-> {},
     startedCount |-> 0, startErrors |-> 0]

NoReturn ==
    [op |-> "none", index |-> 0, cfg |-> NoConfig, ret |-> Nil,
     result |-> EmptyResult, kills |-> {}, ignored |-> {},
     positions |-> [i \in Slots |-> "absent"],
     restart |-> NoRestart, selection |-> NoSelection, synced |-> FALSE]

Returns(op, index, cfg, ret, kills) ==
    [NoReturn EXCEPT !.op = op, !.index = index, !.cfg = cfg, !.ret = ret,
                     !.kills = kills]

\* The handle of a spawned kubectl: the process, known by its arguments.
\* NilCmd is the nil handle.
Process(params) == [params |-> params]

NilCmd == Process(PortForwardParams(NoConfig, 0))

NoFrame ==
    [op |-> "none", index |-> 0, cfg |-> NoConfig, localPort |-> 0,
     cmd |-> NilCmd, err |-> Nil]

---------------------------------------------------------------------------
(* Go maps. *)

MapPut(m, k, v) == [x \in DOMAIN m \cup {k} |-> IF x = k THEN v ELSE m[x]]

MapDelete(m, k) == [x \in DOMAIN m \ {k} |-> m[x]]

EmptyMap == <<>>

---------------------------------------------------------------------------
(* The kubectl processes. *)

\* A probe that finds every port free.
isPortAvailableAlways(port, busy) == TRUE

\* net.Listen on 127.0.0.1:port succeeds unless the port is taken (busy).  The
\* port table belongs to the operating system: a port can be taken by a
\* process outside the program, and a kubectl spawned earlier binds its port
\* at a moment of its own choosing, so busy is an input of every probe.
isPortAvailable(port, busy) == ~busy

\* cmd.Process.Kill(): nil for a nil handle, the signal's error (killErr)
\* otherwise.
StopPortForward(cmd, killErr) ==
    IF cmd = NilCmd THEN Nil ELSE killErr

KillErrs == {Nil, ErrKill}

\* cmd.ProcessState is set by Wait and Run only, which StartPortForward never
\* calls: right after cmd.Start() it is nil.
ProcessStateSet(cmd) == FALSE

\* The launcher.  env: busy (the port is taken), spawnOk (cmd.Start
\* succeeds), exited (the process has already exited by the time of the
\* checks), stderr (the process has written to its error stream by the
\* time of the check; it is then killed, the kill's error being dropped:
\* killing one's own child fails only when it has already finished).
\* alive: the process spawned by this call is still running on return.
StartPortForward(params, env) ==
    IF ~isPortAvailable(params.PortLocal, env.busy)
    THEN [cmd |-> NilCmd, err |-> ErrPortInUse, alive |-> FALSE]
    ELSE IF ~env.spawnOk
    THEN [cmd |-> NilCmd, err |-> ErrStartFailed, alive |-> FALSE]
    ELSE LET spawned == Process(params)
         IN  IF ProcessStateSet(spawned)
             THEN [cmd |-> NilCmd, err |-> ErrExitedQuickly, alive |-> ~env.exited]
             ELSE IF env.stderr
             THEN [cmd |-> NilCmd, err |-> ErrStderr, alive |-> FALSE]
             ELSE [cmd |-> spawned, err |-> Nil, alive |-> ~env.exited]

LaunchEnvs == [busy : BOOLEAN, spawnOk : BOOLEAN, exited : BOOLEAN, stderr : BOOLEAN]

---------------------------------------------------------------------------
(* The two maps. *)

\* A lookup that never finds the index.
ExistsNever(rf, index) == FALSE

\* _, exists := pf.RunningForwards[index]
Exists(rf, index) == index \in DOMAIN rf

\* if currentHolder, ok := pf.activeLocalPorts[localPort]; ok && currentHolder == index
HeldBy(alp, localPort, index) == localPort \in DOMAIN alp /\ alp[localPort] = index

\* ReleaseIfHeld with the delete forgotten.
ReleaseForgotten(alp, localPort, index) == alp

\* The release deleting the reservation whoever holds it.
ReleaseAlways(alp, localPort, index) == MapDelete(alp, localPort)

\* ... { delete(pf.activeLocalPorts, localPort) }
ReleaseIfHeld(alp, localPort, index) ==
    IF HeldBy(alp, localPort, index) THEN MapDelete(alp, localPort) ELSE alp

---------------------------------------------------------------------------
(* Start. *)

\* StartEnter, keeping the mutex while the launcher runs.
StartEnterHoldingLock(t, index, cfg) ==
    /\ pc[t] = "idle"
    /\ Mutex = NoOwner
    /\ LET localPort == cfg.PortLocal
       IN  IF Exists(RunningForwards, index)
           THEN /\ returned' = Returns("Start", index, cfg, Nil, {})
                /\ UNCHANGED <<activeLocalPorts, Mutex, pc, frame>>
           ELSE IF localPort \in DOMAIN activeLocalPorts
           THEN /\ returned' = Returns("Start", index, cfg, ErrLocalPortReserved, {})
                /\ UNCHANGED <<activeLocalPorts, Mutex, pc, frame>>
           ELSE /\ activeLocalPorts' = MapPut(activeLocalPorts, localPort, index)
                /\ Mutex' = t
                /\ pc' = [pc EXCEPT ![t] = "start_launch"]
                /\ frame' = [frame EXCEPT ![t] =
                               [NoFrame EXCEPT !.op = "Start", !.index = index,
                                               !.cfg = cfg, !.localPort = localPort]]
                /\ returned' = NoReturn
    /\ UNCHANGED <<RunningForwards, orphans>>
    /\ UNCHANGED <<restart, store>>

\* Lines 380-400: the first critical section of Start.
StartEnter(t, index, cfg) ==
    /\ pc[t] = "idle"
    /\ Mutex = NoOwner
    /\ LET localPort == cfg.PortLocal
       IN  IF Exists(RunningForwards, index)
           THEN /\ returned' = Returns("Start", index, cfg, Nil, {})
                /\ UNCHANGED <<activeLocalPorts, pc, frame>>
           ELSE IF localPort \in DOMAIN activeLocalPorts
           THEN /\ returned' = Returns("Start", index, cfg, ErrLocalPortReserved, {})
                /\ UNCHANGED <<activeLocalPorts, pc, frame>>
           ELSE /\ activeLocalPorts' = MapPut(activeLocalPorts, localPort, index)
                /\ pc' = [pc EXCEPT ![t] = "start_launch"]
                /\ frame' = [frame EXCEPT ![t] =
                               [NoFrame EXCEPT !.op = "Start", !.index = index,
                                               !.cfg = cfg, !.localPort = localPort]]
                /\ returned' = NoReturn
    /\ UNCHANGED <<RunningForwards, Mutex, orphans>>
    /\ UNCHANGED <<restart, store>>

\* Lines 402-413: the launcher runs with the lock released.
StartLaunch(t, env) ==
    /\ pc[t] = "start_launch"
    /\ LET r == StartPortForward(
                    PortForwardParams(frame[t].cfg, frame[t].localPort), env)
       IN  frame' = [frame EXCEPT ![t].cmd = r.cmd, ![t].err = r.err]
    /\ pc' = [pc EXCEPT ![t] = "start_outcome"]
    /\ returned' = NoReturn
    /\ UNCHANGED <<RunningForwards, activeLocalPorts, Mutex, orphans>>
    /\ UNCHANGED <<restart, store>>

\* pf.RunningForwards[index] = info: the process whose only handle was in the
\* entry replaced keeps running with no handle left (an orphan of the index).
Register(rf, orph, index, info) ==
    [rf |-> MapPut(rf, index, info),
     orphans |-> IF index \in DOMAIN rf
                 THEN orph \cup {index}
                 ELSE orph]

\* Lines 416-446: the second critical section of Start.
StartOutcome(t) ==
    /\ pc[t] = "start_outcome"
    /\ Mutex = NoOwner
    /\ LET index == frame[t].index
           localPort == frame[t].localPort
           cfg == frame[t].cfg
       IN  IF frame[t].err # Nil
           THEN /\ activeLocalPorts' = ReleaseIfHeld(activeLocalPorts, localPort, index)
                /\ returned' = Returns("Start", index, cfg, frame[t].err, {})
                /\ UNCHANGED <<RunningForwards, orphans>>
           ELSE IF frame[t].cmd # NilCmd
           THEN LET r == Register(RunningForwards, orphans, index,
                                  [cmd |-> frame[t].cmd, localPort |-> localPort])
                IN  /\ RunningForwards' = r.rf
                    /\ orphans' = r.orphans
                    /\ returned' = Returns("Start", index, cfg, Nil, {})
                    /\ UNCHANGED activeLocalPorts
           ELSE /\ activeLocalPorts' = ReleaseIfHeld(activeLocalPorts, localPort, index)
                /\ returned' = Returns("Start", index, cfg, ErrNilCmd, {})
                /\ UNCHANGED <<RunningForwards, orphans>>
    /\ pc' = [pc EXCEPT ![t] = "idle"]
    /\ frame' = [frame EXCEPT ![t] = NoFrame]
    /\ UNCHANGED Mutex
    /\ UNCHANGED <<restart, store>>

---------------------------------------------------------------------------
(* Stop. *)

\* StopEnter, also dropping what the index has reserved when it is not running.
StopEnterReleasing(t, index) ==
    /\ pc[t] = "idle"
    /\ Mutex = NoOwner
    /\ IF ~Exists(RunningForwards, index)
       THEN /\ activeLocalPorts' =
                   [p \in { q \in DOMAIN activeLocalPorts : activeLocalPorts[q] # index }
                      |-> activeLocalPorts[p]]
            /\ returned' = Returns("Stop", index, NoConfig, Nil, {})
            /\ UNCHANGED <<Mutex, pc, frame>>
       ELSE LET localPort == RunningForwards[index].localPort
            IN  /\ activeLocalPorts' = ReleaseIfHeld(activeLocalPorts, localPort, index)
                /\ Mutex' = t
                /\ pc' = [pc EXCEPT ![t] = "stop_kill"]
                /\ frame' = [frame EXCEPT ![t] =
                               [NoFrame EXCEPT !.op = "Stop", !.index = index,
                                               !.localPort = localPort]]
                /\ returned' = NoReturn
    /\ UNCHANGED <<RunningForwards, orphans>>
    /\ UNCHANGED <<restart, store>>

\* StopEnter deleting the reservation of the port whoever holds it.
StopEnterDeleting(t, index) ==
    /\ pc[t] = "idle"
    /\ Mutex = NoOwner
    /\ IF ~Exists(RunningForwards, index)
       THEN /\ returned' = Returns("Stop", index, NoConfig, Nil, {})
            /\ UNCHANGED <<activeLocalPorts, Mutex, pc, frame>>
       ELSE LET localPort == RunningForwards[index].localPort
            IN  /\ activeLocalPorts' = MapDelete(activeLocalPorts, localPort)
                /\ Mutex' = t
                /\ pc' = [pc EXCEPT ![t] = "stop_kill"]
                /\ frame' = [frame EXCEPT ![t] =
                               [NoFrame EXCEPT !.op = "Stop", !.index = index,
                                               !.localPort = localPort]]
                /\ returned' = NoReturn
    /\ UNCHANGED <<RunningForwards, orphans>>
    /\ UNCHANGED <<restart, store>>

\* Lines 449-475: lock, look the index up, release the reservation.
StopEnter(t, index) ==
    /\ pc[t] = "idle"
    /\ Mutex = NoOwner
    /\ IF ~Exists(RunningForwards, index)
       THEN /\ returned' = Returns("Stop", index, NoConfig, Nil, {})
            /\ UNCHANGED <<activeLocalPorts, Mutex, pc, frame>>
       ELSE LET localPort == RunningForwards[index].localPort
            IN  /\ activeLocalPorts' = ReleaseIfHeld(activeLocalPorts, localPort, index)
                /\ Mutex' = t
                /\ pc' = [pc EXCEPT ![t] = "stop_kill"]
                /\ frame' = [frame EXCEPT ![t] =
                               [NoFrame EXCEPT !.op = "Stop", !.index = index,
                                               !.localPort = localPort]]
                /\ returned' = NoReturn
    /\ UNCHANGED <<RunningForwards, orphans>>
    /\ UNCHANGED <<restart, store>>

\* StopKill, returning the kill error before the bookkeeping.
StopKillReturningEarly(t, killErr) ==
    /\ pc[t] = "stop_kill"
    /\ Mutex = t
    /\ LET index == frame[t].index
           err == StopPortForward(RunningForwards[index].cmd, killErr)
       IN  /\ RunningForwards' =
                 IF err # Nil THEN RunningForwards ELSE MapDelete(RunningForwards, index)
           /\ returned' = Returns("Stop", index, NoConfig, err, {index})
    /\ Mutex' = NoOwner
    /\ pc' = [pc EXCEPT ![t] = "idle"]
    /\ frame' = [frame EXCEPT ![t] = NoFrame]
    /\ UNCHANGED <<activeLocalPorts, orphans>>
    /\ UNCHANGED <<restart, store>>

\* Lines 477-487: kill the process, remove the index, unlock, return the kill error.
StopKill(t, killErr) ==
    /\ pc[t] = "stop_kill"
    /\ Mutex = t
    /\ LET index == frame[t].index
           err == StopPortForward(RunningForwards[index].cmd, killErr)
       IN  /\ RunningForwards' = MapDelete(RunningForwards, index)
           /\ returned' = Returns("Stop", index, NoConfig, err, {index})
    /\ Mutex' = NoOwner
    /\ pc' = [pc EXCEPT ![t] = "idle"]
    /\ frame' = [frame EXCEPT ![t] = NoFrame]
    /\ UNCHANGED <<activeLocalPorts, orphans>>
    /\ UNCHANGED <<restart, store>>

---------------------------------------------------------------------------
(* IsRunning. *)

\* IsRunning reading the map without taking the lock.
IsRunningUnlocked(t, index) ==
    /\ pc[t] = "idle"
    /\ returned' = Returns("IsRunning", index, NoConfig,
                           IF Exists(RunningForwards, index) THEN "true" ELSE "false", {})
    /\ UNCHANGED <<RunningForwards, activeLocalPorts, Mutex, orphans, pc, frame>>
    /\ UNCHANGED <<restart, store>>

\* Lines 562-567.
IsRunning(t, index) ==
    /\ pc[t] = "idle"
    /\ Mutex = NoOwner
    /\ returned' = Returns("IsRunning", index, NoConfig,
                           IF Exists(RunningForwards, index) THEN "true" ELSE "false", {})
    /\ UNCHANGED <<RunningForwards, activeLocalPorts, Mutex, orphans, pc, frame>>
    /\ UNCHANGED <<restart, store>>

---------------------------------------------------------------------------
(* stopInternal, CleanupAll. *)

\* The two maps, as one value.
Maps(rf, alp) == [rf |-> rf, alp |-> alp]

\* stopInternal returning before the delete when the kill failed.
stopInternalKeepingFailed(m, index, killErr) ==
    IF ~Exists(m.rf, index)
    THEN [m |-> m, err |-> Nil]
    ELSE LET localPort == m.rf[index].localPort
             err == StopPortForward(m.rf[index].cmd, killErr)
         IN  IF err # Nil
             THEN [m |-> m, err |-> err]
             ELSE [m |-> Maps(MapDelete(m.rf, index),
                              ReleaseIfHeld(m.alp, localPort, index)),
                   err |-> err]

\* Lines 499-512: stop a forward, the lock being held.
stopInternal(m, index, killErr) ==
    IF ~Exists(m.rf, index)
    THEN [m |-> m, err |-> Nil]
    ELSE LET localPort == m.rf[index].localPort
         IN  [m |-> Maps(MapDelete(m.rf, index),
                         ReleaseIfHeld(m.alp, localPort, index)),
              err |-> StopPortForward(m.rf[index].cmd, killErr)]

\* The loop of CleanupAll ending at the first kill that fails.
RECURSIVE StopEachUntilFailure(_, _, _)
StopEachUntilFailure(m, indices, done) ==
    IF indices = <<>> THEN m
    ELSE LET stopped == stopInternal(m, Head(indices), done[Head(indices)])
         IN  IF stopped.err # Nil THEN stopped.m
             ELSE StopEachUntilFailure(stopped.m, Tail(indices), done)

\* Lines 577-580: the indices are stopped in the order the map iteration gave.
RECURSIVE StopEach(_, _, _)
StopEach(m, indices, done) ==
    IF indices = <<>> THEN m
    ELSE StopEach(stopInternal(m, Head(indices), done[Head(indices)]).m,
                  Tail(indices), done)

\* The errors the kills of one pass return, by index (Nil where the pass
\* finds nothing to kill).
KillOutcomes ==
    { done \in [Slots -> KillErrs] :
        \A i \in Slots : done[i] # Nil => i \in DOMAIN RunningForwards }

\* The orders in which a range over the map's keys can visit them.
Orders(S) == { o \in [1..Cardinality(S) -> S] : \A a, b \in DOMAIN o : a # b => o[a] # o[b] }

\* Lines 570-572.
CleanupAllLock(t) ==
    /\ pc[t] = "idle"
    /\ Mutex = NoOwner
    /\ Mutex' = t
    /\ pc' = [pc EXCEPT ![t] = "cleanup_locked"]
    /\ frame' = [frame EXCEPT ![t] = [NoFrame EXCEPT !.op = "CleanupAll"]]
    /\ returned' = NoReturn
    /\ UNCHANGED <<RunningForwards, activeLocalPorts, orphans>>
    /\ UNCHANGED <<restart, store>>

\* CleanupAll, keeping the entries whose kill returned an error.
CleanupAllSkippingFailed(t, indices, done) ==
    /\ pc[t] = "cleanup_locked"
    /\ Mutex = t
    /\ RunningForwards' =
          [i \in { j \in DOMAIN RunningForwards : done[j] # Nil } |-> RunningForwards[i]]
    /\ activeLocalPorts' = EmptyMap
    /\ returned' = Returns("CleanupAll", 0, NoConfig, Nil, DOMAIN RunningForwards)
    /\ Mutex' = NoOwner
    /\ pc' = [pc EXCEPT ![t] = "idle"]
    /\ frame' = [frame EXCEPT ![t] = NoFrame]
    /\ UNCHANGED orphans
    /\ UNCHANGED <<restart, store>>

\* CleanupAll stopping each index with Stop, which locks: with an index
\* running the call waits for the lock it holds.
CleanupAllRelocking(t, indices, done) ==
    /\ pc[t] = "cleanup_locked"
    /\ Mutex = t
    /\ DOMAIN RunningForwards = {}
    /\ RunningForwards' = EmptyMap
    /\ activeLocalPorts' = EmptyMap
    /\ returned' = Returns("CleanupAll", 0, NoConfig, Nil, {})
    /\ Mutex' = NoOwner
    /\ pc' = [pc EXCEPT ![t] = "idle"]
    /\ frame' = [frame EXCEPT ![t] = NoFrame]
    /\ UNCHANGED orphans
    /\ UNCHANGED <<restart, store>>

\* Lines 573-584: every running index is stopped, the errors are dropped, and
\* both maps are replaced by empty ones.
CleanupAll(t, indices, done) ==
    /\ pc[t] = "cleanup_locked"
    /\ Mutex = t
    /\ LET m == StopEach(Maps(RunningForwards, activeLocalPorts), indices, done)
       IN  /\ RunningForwards' = EmptyMap
           /\ activeLocalPorts' = EmptyMap
           /\ returned' = [Returns("CleanupAll", 0, NoConfig, Nil,
                                   DOMAIN RunningForwards \ DOMAIN m.rf)
                              EXCEPT !.ignored = { i \in DOMAIN RunningForwards \ DOMAIN m.rf :
                                                      done[i] # Nil }]
    /\ Mutex' = NoOwner
    /\ pc' = [pc EXCEPT ![t] = "idle"]
    /\ frame' = [frame EXCEPT ![t] = NoFrame]
    /\ UNCHANGED orphans
    /\ UNCHANGED <<restart, store>>

---------------------------------------------------------------------------
(* ReloadSync. *)

\* configParamsChanged comparing the old local port with the new remote port.
configParamsChangedCrossed(old, new) ==
    \/ old.Context # new.Context
    \/ old.Namespace # new.Namespace
    \/ old.Service # new.Service
    \/ old.PortRemote # new.PortRemote
    \/ old.PortLocal # new.PortRemote
    \/ old.ID # new.ID

\* configParamsChanged without the comparison of the IDs.
configParamsChangedIgnoringID(old, new) ==
    \/ old.Context # new.Context
    \/ old.Namespace # new.Namespace
    \/ old.Service # new.Service
    \/ old.PortRemote # new.PortRemote
    \/ old.PortLocal # new.PortLocal

\* Lines 685-692.
configParamsChanged(old, new) ==
    \/ old.Context # new.Context
    \/ old.Namespace # new.Namespace
    \/ old.Service # new.Service
    \/ old.PortRemote # new.PortRemote
    \/ old.PortLocal # new.PortLocal
    \/ old.ID # new.ID

Max(a, b) == IF a > b THEN a ELSE b

\* Lines 625-635 and 672: what the two lists hold at position i (0-based).
PositionOf(i, oldConfigs, newConfigs) ==
    IF i < Len(oldConfigs) /\ i < Len(newConfigs)
    THEN IF configParamsChanged(oldConfigs[i + 1], newConfigs[i + 1])
         THEN "changed" ELSE "unchanged"
    ELSE IF i < Len(oldConfigs) THEN "removed"
    ELSE IF i < Len(newConfigs) THEN "added"
    ELSE "absent"

\* Unchanged, stopping the index as for a changed definition.
UnchangedStopping(acc, i) ==
    [acc EXCEPT !.m.rf = MapDelete(@, i), !.kills = @ \cup (DOMAIN acc.m.rf \cap {i})]

\* Lines 654-658: the definition at position i is unchanged; no action.
Unchanged(acc, i) == acc

\* Added, starting the tunnel of the new definition.
AddedStarting(acc, i, newConfigs) ==
    LET cfg == newConfigs[i + 1]
    IN  IF Exists(acc.m.rf, i) \/ cfg.PortLocal \in DOMAIN acc.m.alp THEN acc
        ELSE [acc EXCEPT
                 !.m.rf = MapPut(@, i, [cmd |-> Process(PortForwardParams(cfg, cfg.PortLocal)),
                                        localPort |-> cfg.PortLocal]),
                 !.m.alp = MapPut(@, cfg.PortLocal, i),
                 !.result.Started = Append(@, i)]

\* Lines 672-676: position i is in the new list only; no action.
Added(acc, i, newConfigs) == acc

\* The changed branch reporting nothing for an index that is not running.
ChangedNotRunningSilent(acc, i) == acc

\* Lines 635-653, the index not running: result.Updated = append(result.Updated, i).
ChangedNotRunning(acc, i) == [acc EXCEPT !.result.Updated = Append(@, i)]

\* The pass correlating the two lists by definition, not by position: an
\* index is left alone when its old definition is anywhere in the new list.
ReloadStepByDefinition(acc, i, oldConfigs, newConfigs, done) ==
    LET stopped == stopInternal(acc.m, i, done[i])
    IN  IF i < Len(oldConfigs) /\ Exists(acc.m.rf, i)
           /\ ~\E j \in DOMAIN newConfigs : newConfigs[j] = oldConfigs[i + 1]
        THEN [m |-> stopped.m, kills |-> acc.kills \cup {i},
              result |-> [acc.result EXCEPT !.Stopped = Append(@, i)]]
        ELSE acc

\* Lines 625-676, the loop body for position i (0-based; the lists are
\* 1-based sequences).  acc: the maps, the result so far, the indices killed.
ReloadStep(acc, i, oldConfigs, newConfigs, done) ==
    LET hasOld == i < Len(oldConfigs)
        hasNew == i < Len(newConfigs)
        res == acc.result
        stopped == stopInternal(acc.m, i, done[i])
        kills == acc.kills \cup {i}
    IN  IF hasOld /\ hasNew
        THEN IF configParamsChanged(oldConfigs[i + 1], newConfigs[i + 1])
             THEN IF Exists(acc.m.rf, i)
                  THEN IF stopped.err # Nil
                       THEN [m |-> stopped.m, kills |-> kills,
                             result |-> [res EXCEPT !.Errors = MapPut(@, i, ErrStopChanged),
                                                    !.Updated = Append(@, i)]]
                       ELSE [m |-> stopped.m, kills |-> kills,
                             result |-> [res EXCEPT !.Stopped = Append(@, i),
                                                    !.Updated = Append(@, i)]]
                  ELSE ChangedNotRunning(acc, i)
             ELSE Unchanged(acc, i)
        ELSE IF hasOld
        THEN IF Exists(acc.m.rf, i)
             THEN IF stopped.err # Nil
                  THEN [m |-> stopped.m, kills |-> kills,
                        result |-> [res EXCEPT !.Errors = MapPut(@, i, ErrStopRemoved)]]
                  ELSE [m |-> stopped.m, kills |-> kills,
                        result |-> [res EXCEPT !.Stopped = Append(@, i)]]
             ELSE acc
        ELSE IF hasNew
        THEN Added(acc, i, newConfigs)
        ELSE acc

\* Lines 611-624: the loop over the positions 0..maxLen-1.
RECURSIVE ReloadLoop(_, _, _, _, _)
ReloadLoop(acc, i, oldConfigs, newConfigs, done) ==
    IF i >= Max(Len(oldConfigs), Len(newConfigs)) THEN acc
    ELSE ReloadLoop(ReloadStep(acc, i, oldConfigs, newConfigs, done),
                    i + 1, oldConfigs, newConfigs, done)

\* Lines 600-680: the pass over the two lists, from the maps as they are
\* when the pass begins.
ReloadPass(rf, alp, oldConfigs, newConfigs, done) ==
    ReloadLoop([m |-> Maps(rf, alp), result |-> EmptyResult, kills |-> {}],
               0, oldConfigs, newConfigs, done)

\* ReloadSync letting go of the lock before the pass.
ReloadSyncLockDropped(t) ==
    /\ pc[t] = "idle"
    /\ Mutex = NoOwner
    /\ Mutex' = NoOwner
    /\ pc' = [pc EXCEPT ![t] = "reload_locked"]
    /\ frame' = [frame EXCEPT ![t] = [NoFrame EXCEPT !.op = "ReloadSync"]]
    /\ returned' = NoReturn
    /\ UNCHANGED <<RunningForwards, activeLocalPorts, orphans>>
    /\ UNCHANGED <<restart, store>>

\* Lines 596-598.
ReloadSyncLock(t) ==
    /\ pc[t] = "idle"
    /\ Mutex = NoOwner
    /\ Mutex' = t
    /\ pc' = [pc EXCEPT ![t] = "reload_locked"]
    /\ frame' = [frame EXCEPT ![t] = [NoFrame EXCEPT !.op = "ReloadSync"]]
    /\ returned' = NoReturn
    /\ UNCHANGED <<RunningForwards, activeLocalPorts, orphans>>
    /\ UNCHANGED <<restart, store>>

\* Lines 600-682.  The two lists are read here for the first time.
ReloadSync(t, oldConfigs, newConfigs, done) ==
    /\ pc[t] = "reload_locked"
    /\ Mutex = t
    /\ LET acc == ReloadPass(RunningForwards, activeLocalPorts,
                             oldConfigs, newConfigs, done)
       IN  /\ RunningForwards' = acc.m.rf
           /\ activeLocalPorts' = acc.m.alp
           /\ returned' = [NoReturn EXCEPT
                              !.op = "ReloadSync", !.result = acc.result,
                              !.kills = acc.kills,
                              !.positions = [i \in Slots |->
                                                PositionOf(i, oldConfigs, newConfigs)]]
    /\ Mutex' = NoOwner
    /\ pc' = [pc EXCEPT ![t] = "idle"]
    /\ frame' = [frame EXCEPT ![t] = NoFrame]
    /\ UNCHANGED orphans
    /\ UNCHANGED <<restart, store>>

---------------------------------------------------------------------------
(* The configuration store, src/pkg/config/store.go, and the file it reads. *)

\* A slice that can be nil: previousConfigs and previousProjects.
NilSlice == [isNil |-> TRUE, items |-> <<>>]

Slice(items) == [isNil |-> FALSE, items |-> items]

Project(name, forwards) == [Name |-> name, Forwards |-> forwards]

\* The nil activeProject.
NoProject == Project("", <<>>)

\* The errors of loadFromDisk and of Reload.
ErrConfigDir == "failed to prepare config directory"
ErrStat == "failed to stat config file"
ErrRead == "failed to read config file"
ErrUnmarshal == "failed to unmarshal config file"
ErrMigration == "CONFIG MIGRATION REQUIRED"
ErrValidation == "config validation failed"
ErrReload == "config reload failed, kept previous config"
ErrProjectNotFound == "project not found"

\* A definition of the old format, without an id.
NoIDConfig == [BaseConfig EXCEPT !.ID = ""]

MaxProjects == 2

\* The lists a configuration file can hold, the invalid ones among them: a
\* definition without an ID or the same ID twice; a project without a name,
\* the same name twice, or a forward ID ("c") no definition has.
DiskConfigLists == UNION { [1..n -> Configs \cup {NoIDConfig}] : n \in 0..(MaxSlot + 1) }

DiskProjectLists ==
    UNION { [1..n -> { Project("p", <<"a">>), Project("p", <<"c">>), Project("", <<>>) }] :
               n \in 0..MaxProjects }

ConfigFile(portForwards, portForwardsOld, projects) ==
    [PortForwards |-> portForwards, PortForwardsOld |-> portForwardsOld,
     Projects |-> projects]

\* What loadFromDisk finds: no file (and the directory made, or not), a
\* file it cannot stat, read or parse, or a parsed file.  The legacy field
\* matters only when port_forwards is empty.
Disks ==
    { [outcome |-> o, file |-> ConfigFile(<<>>, <<>>, <<>>)] :
         o \in {"missing", "mkdir", "stat", "read", "unmarshal"} } \cup
    { [outcome |-> "parsed", file |-> ConfigFile(l, <<>>, p)] :
         l \in DiskConfigLists, p \in DiskProjectLists } \cup
    { [outcome |-> "parsed", file |-> ConfigFile(<<>>, <<c>>, p)] :
         c \in {BaseConfig, NoIDConfig}, p \in DiskProjectLists }

\* NewConfigStore, lines 60-72: the store after Load found no file.
NewConfigStore ==
    [configs |-> <<>>, previousConfigs |-> NilSlice,
     projects |-> <<>>, previousProjects |-> NilSlice,
     activeProject |-> NoProject]

\* validateConfig, lines 238-277: the error it returns, or Nil.  No ID or
\* name of the lists above has leading or trailing whitespace.
validateConfig(cs) ==
    LET ids == { cs.configs[i].ID : i \in DOMAIN cs.configs }
    IN  IF \/ \E i \in DOMAIN cs.configs : cs.configs[i].ID = ""
           \/ \E i, j \in DOMAIN cs.configs : i # j /\ cs.configs[i].ID = cs.configs[j].ID
           \/ \E i \in DOMAIN cs.projects : cs.projects[i].Name = ""
           \/ \E i, j \in DOMAIN cs.projects :
                 i # j /\ cs.projects[i].Name = cs.projects[j].Name
           \/ \E i \in DOMAIN cs.projects : \E k \in DOMAIN cs.projects[i].Forwards :
                 cs.projects[i].Forwards[k] \notin ids
        THEN ErrValidation
        ELSE Nil

\* loadFromDisk, lines 180-235.  The lists of a parsed file are assigned
\* before they are checked.
loadFromDisk(cs, disk) ==
    CASE disk.outcome = "missing" -> [cs |-> [cs EXCEPT !.configs = <<>>], err |-> Nil]
      [] disk.outcome = "mkdir" -> [cs |-> cs, err |-> ErrConfigDir]
      [] disk.outcome = "stat" -> [cs |-> cs, err |-> ErrStat]
      [] disk.outcome = "read" -> [cs |-> cs, err |-> ErrRead]
      [] disk.outcome = "unmarshal" -> [cs |-> cs, err |-> ErrUnmarshal]
      [] OTHER ->
           LET cfgFile == disk.file
               loaded == [cs EXCEPT
                            !.configs =
                                IF Len(cfgFile.PortForwards) = 0
                                   /\ Len(cfgFile.PortForwardsOld) > 0
                                THEN cfgFile.PortForwardsOld
                                ELSE cfgFile.PortForwards,
                            !.projects = cfgFile.Projects]
           IN  IF \E i \in DOMAIN loaded.configs : loaded.configs[i].ID = ""
               THEN [cs |-> loaded, err |-> ErrMigration]
               ELSE [cs |-> loaded, err |-> validateConfig(loaded)]

\* setActiveProjectUnsafe, lines 320-329: the first project of that name.
setActiveProjectUnsafe(cs, name) ==
    LET found == { i \in DOMAIN cs.projects : cs.projects[i].Name = name }
    IN  IF found # {}
        THEN [cs |-> [cs EXCEPT !.activeProject =
                         cs.projects[CHOOSE i \in found : \A j \in found : i <= j]],
              err |-> Nil]
        ELSE [cs |-> cs, err |-> ErrProjectNotFound]

\* Reload that keeps what a failed load assigned.
ReloadKeepingLoaded(cs, disk) ==
    LET snapshot == [cs EXCEPT !.previousConfigs = Slice(cs.configs),
                               !.previousProjects = Slice(cs.projects)]
        activeProjectName == cs.activeProject.Name
        loaded == loadFromDisk(snapshot, disk)
        active == setActiveProjectUnsafe(loaded.cs, activeProjectName)
    IN  IF loaded.err # Nil
        THEN [cs |-> [loaded.cs EXCEPT !.previousConfigs = NilSlice,
                                       !.previousProjects = NilSlice],
              err |-> ErrReload]
        ELSE IF activeProjectName # "" /\ active.err # Nil
        THEN [cs |-> [loaded.cs EXCEPT !.activeProject = NoProject], err |-> Nil]
        ELSE IF activeProjectName # ""
        THEN [cs |-> active.cs, err |-> Nil]
        ELSE [cs |-> loaded.cs, err |-> Nil]

\* Reload, lines 122-161: the snapshot, the load, and on an error the lists
\* put back and the snapshot dropped; after a load the active project is
\* looked up again by its name.
Reload(cs, disk) ==
    LET snapshot == [cs EXCEPT !.previousConfigs = Slice(cs.configs),
                               !.previousProjects = Slice(cs.projects)]
        activeProjectName == cs.activeProject.Name
        loaded == loadFromDisk(snapshot, disk)
        active == setActiveProjectUnsafe(loaded.cs, activeProjectName)
    IN  IF loaded.err # Nil
        THEN [cs |-> [loaded.cs EXCEPT !.configs = loaded.cs.previousConfigs.items,
                                       !.projects = loaded.cs.previousProjects.items,
                                       !.previousConfigs = NilSlice,
                                       !.previousProjects = NilSlice],
              err |-> ErrReload]
        ELSE IF activeProjectName # "" /\ active.err # Nil
        THEN [cs |-> [loaded.cs EXCEPT !.activeProject = NoProject], err |-> Nil]
        ELSE IF activeProjectName # ""
        THEN [cs |-> active.cs, err |-> Nil]
        ELSE [cs |-> loaded.cs, err |-> Nil]

\* GetPrevious, lines 164-177, and GetAll, lines 83-91.
GetPrevious(cs) == IF cs.previousConfigs.isNil THEN <<>> ELSE cs.previousConfigs.items

GetAll(cs) == cs.configs

---------------------------------------------------------------------------

Init ==
    /\ RunningForwards = EmptyMap
    /\ activeLocalPorts = EmptyMap
    /\ Mutex = NoOwner
    /\ orphans = {}
    /\ pc = [t \in Callers |-> "idle"]
    /\ frame = [t \in Callers |-> NoFrame]
    /\ returned = NoReturn
    /\ restart = [t \in Callers |-> NoRestart]
    /\ store = NewConfigStore

\* One step of one of the callers; newLists: the lists a reload can bring.
StepBy(callers, newLists) ==
    \/ \E t \in callers, index \in Slots, cfg \in Configs : StartEnter(t, index, cfg)
    \/ \E t \in callers, env \in LaunchEnvs : StartLaunch(t, env)
    \/ \E t \in callers : StartOutcome(t)
    \/ \E t \in callers, index \in Slots : StopEnter(t, index)
    \/ \E t \in callers, killErr \in KillErrs : StopKill(t, killErr)
    \/ \E t \in callers, index \in Slots : IsRunning(t, index)
    \/ \E t \in callers : CleanupAllLock(t)
    \/ \E t \in callers, indices \in Orders(DOMAIN RunningForwards), done \in KillOutcomes :
          CleanupAll(t, indices, done)
    \/ \E t \in callers : ReloadSyncLock(t)
    \/ \E t \in callers, oldConfigs \in ConfigLists, newConfigs \in newLists,
          done \in KillOutcomes :
          ReloadSync(t, oldConfigs, newConfigs, done)

\* One step of any caller.
Step(newLists) == StepBy(Callers, newLists)

Next == Step(ConfigLists)

Spec == Init /\ [][Next]_vars

\* A call that has begun goes on: the launcher returns and a kill returns
\* (the steps after them are taken), and a caller waiting for the lock gets
\* it when it is released over and over (sync.Mutex hands the lock to a
\* waiter that has waited long).
Fairness ==
    \A t \in Callers :
        /\ WF_vars(pc[t] = "start_launch" /\ \E env \in LaunchEnvs : StartLaunch(t, env))
        /\ SF_vars(StartOutcome(t))
        /\ WF_vars(pc[t] = "stop_kill" /\ \E killErr \in KillErrs : StopKill(t, killErr))
        /\ WF_vars(pc[t] = "cleanup_locked"
                   /\ \E indices \in Orders(DOMAIN RunningForwards), done \in KillOutcomes :
                         CleanupAll(t, indices, done))
        /\ WF_vars(pc[t] = "reload_locked"
                   /\ \E oldConfigs \in ConfigLists, newConfigs \in ConfigLists,
                         done \in KillOutcomes :
                         ReloadSync(t, oldConfigs, newConfigs, done))

SpecFair == Init /\ [][Next]_vars /\ Fairness

\* The same callers, a reload bringing any list over NewConfigs.
NextReload == Step(NewConfigLists)

SpecReload == Init /\ [][NextReload]_vars

---------------------------------------------------------------------------
(* RestartRunningForwards, on stopInternal and startInternal. *)

\* The definitions a restart is given: one for every slot.
RestartLists == { l \in ConfigLists : Len(l) = MaxSlot + 1 }

\* Lines 515-526 of startInternal, the lock held: the checks and the
\* reservation.  reserved: the launch is to follow.
startInternalEnter(m, index, cfg) ==
    LET localPort == cfg.PortLocal
    IN  IF Exists(m.rf, index)
        THEN [m |-> m, err |-> Nil, reserved |-> FALSE]
        ELSE IF localPort \in DOMAIN m.alp
        THEN [m |-> m, err |-> ErrLocalPortReserved, reserved |-> FALSE]
        ELSE [m |-> Maps(m.rf, MapPut(m.alp, localPort, index)),
              err |-> Nil, reserved |-> TRUE]

\* Lines 539-558 of startInternal, the lock held again: the outcome of the
\* launch.
startInternalOutcome(m, orph, index, localPort, cmd, err) ==
    IF err # Nil
    THEN [m |-> Maps(m.rf, ReleaseIfHeld(m.alp, localPort, index)),
          orphans |-> orph, err |-> err]
    ELSE IF cmd # NilCmd
    THEN LET r == Register(m.rf, orph, index, [cmd |-> cmd, localPort |-> localPort])
         IN  [m |-> Maps(r.rf, m.alp), orphans |-> r.orphans, err |-> Nil]
    ELSE [m |-> Maps(m.rf, ReleaseIfHeld(m.alp, localPort, index)),
          orphans |-> orph, err |-> ErrNilCmd]

\* RestartRunningForwards takes the lock and notes the running indices.
\* The restart-all key has one handler: one restart is in progress at a time.
RestartLock(t, configs) ==
    /\ pc[t] = "idle"
    /\ \A u \in Callers : restart[u] = NoRestart
    /\ Mutex = NoOwner
    /\ Mutex' = t
    /\ pc' = [pc EXCEPT ![t] = "restart_locked"]
    /\ frame' = [frame EXCEPT ![t] = [NoFrame EXCEPT !.op = "RestartRunningForwards"]]
    /\ restart' = [restart EXCEPT ![t] =
                      [NoRestart EXCEPT !.configs = configs,
                                        !.running = DOMAIN RunningForwards,
                                        !.todo = DOMAIN RunningForwards]]
    /\ returned' = NoReturn
    /\ UNCHANGED <<RunningForwards, activeLocalPorts, orphans, store>>

\* One running index: stopInternal, then startInternal up to its launch,
\* for which the lock is released.  A failed stop, or a start turned down,
\* is noted in Errors and the next index is taken.
RestartStop(t, index, killErr) ==
    /\ pc[t] = "restart_locked"
    /\ Mutex = t
    /\ index \in restart[t].todo
    /\ LET cfg == restart[t].configs[index + 1]
           stopped == stopInternal(Maps(RunningForwards, activeLocalPorts), index, killErr)
           entered == startInternalEnter(stopped.m, index, cfg)
           failed(m, err) ==
               /\ RunningForwards' = m.rf
               /\ activeLocalPorts' = m.alp
               /\ restart' = [restart EXCEPT
                                 ![t].todo = @ \ {index},
                                 ![t].Errors = MapPut(@, index, err)]
               /\ UNCHANGED <<Mutex, pc, frame>>
       IN  IF stopped.err # Nil
           THEN failed(stopped.m, stopped.err)
           ELSE IF ~entered.reserved
           THEN failed(entered.m, entered.err)
           ELSE /\ RunningForwards' = entered.m.rf
                /\ activeLocalPorts' = entered.m.alp
                /\ Mutex' = NoOwner
                /\ pc' = [pc EXCEPT ![t] = "restart_launch"]
                /\ frame' = [frame EXCEPT ![t] =
                               [@ EXCEPT !.index = index, !.cfg = cfg,
                                         !.localPort = cfg.PortLocal,
                                         !.cmd = NilCmd, !.err = Nil]]
                /\ UNCHANGED restart
    /\ returned' = NoReturn
    /\ UNCHANGED <<orphans, store>>

\* Lines 529-538 of startInternal: the launcher runs with the lock released.
RestartLaunch(t, env) ==
    /\ pc[t] = "restart_launch"
    /\ LET r == StartPortForward(
                    PortForwardParams(frame[t].cfg, frame[t].localPort), env)
       IN  frame' = [frame EXCEPT ![t].cmd = r.cmd, ![t].err = r.err]
    /\ pc' = [pc EXCEPT ![t] = "restart_outcome"]
    /\ returned' = NoReturn
    /\ UNCHANGED <<RunningForwards, activeLocalPorts, Mutex, orphans, restart, store>>

\* startInternal takes the lock again and returns; the restart counts the
\* index or notes its error, and goes on with the lock held.
RestartOutcome(t) ==
    /\ pc[t] = "restart_outcome"
    /\ Mutex = NoOwner
    /\ LET index == frame[t].index
           r == startInternalOutcome(Maps(RunningForwards, activeLocalPorts), orphans,
                                     index, frame[t].localPort, frame[t].cmd, frame[t].err)
       IN  /\ RunningForwards' = r.m.rf
           /\ activeLocalPorts' = r.m.alp
           /\ orphans' = r.orphans
           /\ restart' = [restart EXCEPT
                             ![t].todo = @ \ {index},
                             ![t].Errors = IF r.err # Nil THEN MapPut(@, index, r.err) ELSE @,
                             ![t].restarted = IF r.err = Nil THEN @ \cup {index} ELSE @,
                             ![t].RestartedCount = IF r.err = Nil THEN @ + 1 ELSE @]
    /\ Mutex' = t
    /\ pc' = [pc EXCEPT ![t] = "restart_locked"]
    /\ frame' = [frame EXCEPT ![t] = [NoFrame EXCEPT !.op = "RestartRunningForwards"]]
    /\ returned' = NoReturn
    /\ UNCHANGED store

\* Every running index done: the RestartResult is returned.
RestartReturn(t) ==
    /\ pc[t] = "restart_locked"
    /\ Mutex = t
    /\ restart[t].todo = {}
    /\ returned' = [NoReturn EXCEPT !.op = "RestartRunningForwards",
                                    !.restart = restart[t]]
    /\ restart' = [restart EXCEPT ![t] = NoRestart]
    /\ Mutex' = NoOwner
    /\ pc' = [pc EXCEPT ![t] = "idle"]
    /\ frame' = [frame EXCEPT ![t] = NoFrame]
    /\ UNCHANGED <<RunningForwards, activeLocalPorts, orphans, store>>

\* The callers of Spec, a restart being one more operation.
NextRestart ==
    \/ Step(ConfigLists)
    \/ \E t \in Callers, configs \in RestartLists : RestartLock(t, configs)
    \/ \E t \in Callers, index \in Slots, killErr \in KillErrs : RestartStop(t, index, killErr)
    \/ \E t \in Callers, env \in LaunchEnvs : RestartLaunch(t, env)
    \/ \E t \in Callers : RestartOutcome(t)
    \/ \E t \in Callers : RestartReturn(t)

SpecRestart == Init /\ [][NextRestart]_vars

---------------------------------------------------------------------------
(* The project selector of the UI.  Its handler runs on the UI's one event *)
(* loop: the calls it makes to the PortForwarder follow one another with   *)
(* no other call between them.                                             *)

\* Stop(index) from its call to its return.
StopCall(m, index, killErr) ==
    IF ~Exists(m.rf, index)
    THEN [m |-> m, err |-> Nil]
    ELSE LET localPort == m.rf[index].localPort
         IN  [m |-> Maps(MapDelete(m.rf, index),
                         ReleaseIfHeld(m.alp, localPort, index)),
              err |-> StopPortForward(m.rf[index].cmd, killErr)]

\* Start(index, cfg) from its call to its return, no other caller acting
\* while the launcher runs.  w: the two maps and the orphans.
StartCall(w, index, cfg, env) ==
    LET localPort == cfg.PortLocal
    IN  IF Exists(w.m.rf, index)
        THEN [w |-> w, err |-> Nil]
        ELSE IF localPort \in DOMAIN w.m.alp
        THEN [w |-> w, err |-> ErrLocalPortReserved]
        ELSE LET alp == MapPut(w.m.alp, localPort, index)
                 r == StartPortForward(PortForwardParams(cfg, localPort), env)
             IN  IF r.err # Nil
                 THEN [w |-> [w EXCEPT !.m.alp = ReleaseIfHeld(alp, localPort, index)],
                       err |-> r.err]
                 ELSE IF r.cmd # NilCmd
                 THEN LET reg == Register(w.m.rf, w.orphans, index,
                                          [cmd |-> r.cmd, localPort |-> localPort])
                      IN  [w |-> [m |-> Maps(reg.rf, alp), orphans |-> reg.orphans],
                           err |-> Nil]
                 ELSE [w |-> [w EXCEPT !.m.alp = ReleaseIfHeld(alp, localPort, index)],
                       err |-> ErrNilCmd]

\* cs.GetIndexByID: the first index holding the ID, -1 when there is none.
GetIndexByID(configs, id) ==
    LET found == { i \in DOMAIN configs : configs[i].ID = id }
    IN  IF found = {} THEN -1
        ELSE (CHOOSE i \in found : \A j \in found : i <= j) - 1

\* stopAllRunningPortForwards leaving every forward as it is.
RECURSIVE stopAllRunningPortForwardsIdle(_, _, _, _)
stopAllRunningPortForwardsIdle(acc, i, configs, done) == acc

\* stopAllRunningPortForwards, from index i on: every index of the store's
\* list that IsRunning is stopped, the error of a Stop being logged only.
\* acc: the maps and the indices Stop was called for.
RECURSIVE stopAllRunningPortForwards(_, _, _, _)
stopAllRunningPortForwards(acc, i, configs, done) ==
    IF i >= Len(configs)
    THEN acc
    ELSE IF Exists(acc.m.rf, i)
    THEN stopAllRunningPortForwards(
             [m |-> StopCall(acc.m, i, done[i]).m, kills |-> acc.kills \cup {i}],
             i + 1, configs, done)
    ELSE stopAllRunningPortForwards(acc, i + 1, configs, done)

\* startProjectPortForwards, from the k-th forward ID of the project on.
\* acc: w (maps and orphans), attempted (the indices Start was called
\* for), startedCount, startErrors (the number of error messages).
RECURSIVE startProjectPortForwards(_, _, _, _, _)
startProjectPortForwards(acc, k, configs, forwards, envs) ==
    IF k > Len(forwards)
    THEN acc
    ELSE LET index == GetIndexByID(configs, forwards[k])
             next ==
                 IF index = -1
                 THEN [acc EXCEPT !.startErrors = @ + 1]
                 ELSE IF Exists(acc.w.m.rf, index)
                 THEN [acc EXCEPT !.startedCount = @ + 1]
                 ELSE LET r == StartCall(acc.w, index, configs[index + 1], envs[index])
                      IN  [w |-> r.w,
                           attempted |-> acc.attempted \cup {index},
                           startedCount |-> IF r.err = Nil THEN acc.startedCount + 1
                                            ELSE acc.startedCount,
                           startErrors |-> IF r.err = Nil THEN acc.startErrors
                                           ELSE acc.startErrors + 1]
         IN  startProjectPortForwards(next, k + 1, configs, forwards, envs)

\* The IDs a project can list: those of Configs and one no definition has.
ForwardIDs == { c.ID : c \in Configs } \cup {"c"}

\* The entries of the selector: "All Projects", or a project with its
\* forward IDs.
Selections ==
    {[all |-> TRUE, Forwards |-> <<>>]} \cup
    { [all |-> FALSE, Forwards |-> f] :
        f \in { l \in UNION { [1..n -> ForwardIDs] : n \in 0..(MaxSlot + 1) } :
                   \A a, b \in DOMAIN l : a # b => l[a] # l[b] } }

\* One launch environment for each way the launcher can return.
LaunchBranches ==
    { env \in LaunchEnvs :
        /\ env.busy => env.spawnOk /\ ~env.exited /\ ~env.stderr
        /\ ~env.spawnOk => ~env.exited /\ ~env.stderr
        /\ env.stderr => ~env.exited }

\* The UI's event loop, the one caller of the PortForwarder in the program.
UI == 1

\* handleProjectSelection, on the UI's event loop: no call to the
\* PortForwarder is in progress when it begins.
handleProjectSelection(t, configs, selected, done, envs) ==
    /\ \A u \in Callers : pc[u] = "idle"
    /\ Mutex = NoOwner
    /\ LET stopped == stopAllRunningPortForwards(
                          [m |-> Maps(RunningForwards, activeLocalPorts), kills |-> {}],
                          0, configs, done)
           begun == [w |-> [m |-> stopped.m, orphans |-> orphans],
                     attempted |-> {}, startedCount |-> 0, startErrors |-> 0]
           started == IF selected.all
                      THEN begun
                      ELSE startProjectPortForwards(begun, 1, configs,
                                                    selected.Forwards, envs)
       IN  /\ RunningForwards' = started.w.m.rf
           /\ activeLocalPorts' = started.w.m.alp
           /\ orphans' = started.w.orphans
           /\ returned' =
                 [NoReturn EXCEPT
                    !.op = "handleProjectSelection",
                    !.kills = stopped.kills,
                    !.selection =
                        [all |-> selected.all,
                         before |-> DOMAIN RunningForwards,
                         project |-> { GetIndexByID(configs, selected.Forwards[k]) :
                                          k \in DOMAIN selected.Forwards } \ {-1},
                         attempted |-> started.attempted,
                         startedCount |-> started.startedCount,
                         startErrors |-> started.startErrors]]
    /\ UNCHANGED <<Mutex, pc, frame, restart, store>>

\* The UI's event loop: the key handlers calling the PortForwarder one
\* after another, the project selector among them.
NextProject ==
    \/ StepBy({UI}, ConfigLists)
    \/ \E t \in {UI}, configs \in RestartLists, selected \in Selections,
          done \in KillOutcomes, envs \in [Slots -> LaunchBranches] :
          handleProjectSelection(t, configs, selected, done, envs)

SpecProject == Init /\ [][NextProject]_vars

---------------------------------------------------------------------------
(* The reload key of the UI. *)

\* handleConfigReload, src/unnamed/part_006 325-359: the store reloads; on
\* an error the handler returns; otherwise ReloadSync reconciles the list
\* before the reload with the one after it.  The handler runs on the UI's
\* event loop, from its call to its return.
handleConfigReload(t, disk, done) ==
    /\ \A u \in Callers : pc[u] = "idle"
    /\ Mutex = NoOwner
    /\ LET r == Reload(store, disk)
           oldConfigs == GetPrevious(r.cs)
           newConfigs == GetAll(r.cs)
           acc == ReloadPass(RunningForwards, activeLocalPorts,
                             oldConfigs, newConfigs, done)
       IN  /\ store' = r.cs
           /\ IF r.err # Nil
              THEN /\ returned' = [NoReturn EXCEPT !.op = "handleConfigReload",
                                                   !.ret = r.err]
                   /\ UNCHANGED <<RunningForwards, activeLocalPorts>>
              ELSE /\ RunningForwards' = acc.m.rf
                   /\ activeLocalPorts' = acc.m.alp
                   /\ returned' =
                         [NoReturn EXCEPT
                            !.op = "handleConfigReload",
                            !.result = acc.result,
                            !.kills = acc.kills,
                            !.positions = [i \in Slots |->
                                              PositionOf(i, oldConfigs, newConfigs)],
                            !.synced = TRUE]
    /\ UNCHANGED <<Mutex, orphans, pc, frame, restart>>

\* The UI's event loop with the keys that start a tunnel and reload the
\* configuration.
NextStore ==
    \/ \E t \in {UI}, index \in Slots, cfg \in Configs : StartEnter(t, index, cfg)
    \/ \E t \in {UI}, env \in LaunchEnvs : StartLaunch(t, env)
    \/ \E t \in {UI} : StartOutcome(t)
    \/ \E t \in {UI}, disk \in Disks, done \in KillOutcomes :
          handleConfigReload(t, disk, done)

SpecStore == Init /\ [][NextStore]_vars

---------------------------------------------------------------------------
(* Properties. *)

InSeq(i, s) == \E k \in DOMAIN s : s[k] = i

\* The local port of an index's running tunnel is taken by some index.
Reserved(alp, localPort) == localPort \in DOMAIN alp

\* A Start that has reserved its port and not yet recorded its outcome.
InFlight(t) == pc[t] \in {"start_launch", "start_outcome"}

\* C1: no two distinct indices of RunningForwards run on the same local port.
MutualExclusion ==
    \A a, b \in DOMAIN RunningForwards :
        a # b => RunningForwards[a].localPort # RunningForwards[b].localPort

\* C2: whenever no critical section is in progress, a local port is a key of
\* activeLocalPorts if and only if a tunnel of RunningForwards runs on it or a
\* Start that reserved it is in flight.
ReservationInvariant ==
    Mutex = NoOwner =>
        \A p \in { c.PortLocal : c \in Configs } :
            Reserved(activeLocalPorts, p) <=>
                \/ \E a \in DOMAIN RunningForwards : RunningForwards[a].localPort = p
                \/ \E t \in Callers : InFlight(t) /\ frame[t].localPort = p

\* C3: Start(b, cfg) with b not running, while another index a runs on
\* cfg.PortLocal, returns ErrLocalPortReserved, does not reach the launcher
\* and leaves both maps unchanged.
StartOnOccupiedPort ==
    [][\A t \in Callers, b \in Slots, cfg \in Configs :
          ( /\ StartEnter(t, b, cfg)
            /\ ~Exists(RunningForwards, b)
            /\ \E a \in DOMAIN RunningForwards :
                  a # b /\ RunningForwards[a].localPort = cfg.PortLocal )
          => /\ returned' = Returns("Start", b, cfg, ErrLocalPortReserved, {})
             /\ pc'[t] = "idle"
             /\ UNCHANGED <<RunningForwards, activeLocalPorts>>]_vars

\* C4: when the launcher has failed, Start returns the launcher's error, and
\* on return the index is not in RunningForwards and the local port is not
\* reserved.
ReleaseOnLaunchFailure ==
    [][\A t \in Callers :
          (StartOutcome(t) /\ frame[t].err # Nil)
          => /\ returned'.op = "Start"
             /\ returned'.ret = frame[t].err
             /\ ~Exists(RunningForwards', frame[t].index)
             /\ ~Reserved(activeLocalPorts', frame[t].localPort)]_vars

\* C5: at the step of Stop that sends the kill, the index no longer holds the
\* reservation of its tunnel's local port, and the mutex has been held since
\* the release.
ReleaseBeforeKill ==
    [][\A t \in Callers, killErr \in KillErrs :
          StopKill(t, killErr)
          => /\ ~HeldBy(activeLocalPorts,
                        RunningForwards[frame[t].index].localPort, frame[t].index)
             /\ Mutex = t]_vars

\* A Stop that has released the reservation and is about to send the kill.
ReleaseBeforeKillReached ==
    \E t \in Callers :
        /\ pc[t] = "stop_kill"
        /\ Exists(RunningForwards, frame[t].index)
        /\ ~Reserved(activeLocalPorts, frame[t].localPort)

\* C6: when the kill fails, Stop still removes the index from RunningForwards,
\* the index does not hold its port's reservation, and Stop returns the kill
\* error.
KillFailureStillRemoves ==
    [][\A t \in Callers, killErr \in KillErrs :
          (StopKill(t, killErr) /\ killErr # Nil)
          => /\ ~Exists(RunningForwards', frame[t].index)
             /\ ~HeldBy(activeLocalPorts', frame[t].localPort, frame[t].index)
             /\ returned' = Returns("Stop", frame[t].index, NoConfig, killErr,
                                    {frame[t].index})]_vars

\* A Stop has returned the kill error.
KillFailureReturned ==
    /\ returned.op = "Stop"
    /\ returned.ret = ErrKill
    /\ returned.kills = {returned.index}
    /\ ~Exists(RunningForwards, returned.index)

\* C7: Start on an index that is in RunningForwards returns nil, does not
\* reach the launcher and leaves both maps unchanged, whatever the definition.
StartIdempotent ==
    [][\A t \in Callers, index \in Slots, cfg \in Configs :
          (StartEnter(t, index, cfg) /\ index \in DOMAIN RunningForwards)
          => /\ returned' = Returns("Start", index, cfg, Nil, {})
             /\ pc'[t] = "idle"
             /\ UNCHANGED <<RunningForwards, activeLocalPorts, orphans>>]_vars

\* A Start has returned nil for a running index and a definition whose local
\* port is not the one the tunnel runs on.
StartIdempotentReached ==
    /\ returned.op = "Start"
    /\ returned.ret = Nil
    /\ Exists(RunningForwards, returned.index)
    /\ RunningForwards[returned.index].localPort # returned.cfg.PortLocal
    /\ RunningForwards[returned.index].cmd.params.PortLocal # returned.cfg.PortLocal

\* C8: Stop on an index that is not in RunningForwards returns nil, sends no
\* kill and leaves both maps unchanged.
StopIdempotent ==
    [][\A t \in Callers, index \in Slots :
          (StopEnter(t, index) /\ index \notin DOMAIN RunningForwards)
          => /\ returned' = Returns("Stop", index, NoConfig, Nil, {})
             /\ pc'[t] = "idle"
             /\ UNCHANGED <<RunningForwards, activeLocalPorts, Mutex>>]_vars

\* A Stop has returned nil without sending a kill.
StopIdempotentReached ==
    /\ returned.op = "Stop"
    /\ returned.ret = Nil
    /\ returned.kills = {}
    /\ ~Exists(RunningForwards, returned.index)

\* Position i (0-based) is in both lists with definitions that differ in some
\* field, and index i is running.
ChangedAndRunning(i, oldConfigs, newConfigs) ==
    /\ i < Len(oldConfigs)
    /\ i < Len(newConfigs)
    /\ \E f \in {"Context", "Namespace", "Service", "PortRemote", "PortLocal", "ID"} :
          oldConfigs[i + 1][f] # newConfigs[i + 1][f]
    /\ i \in DOMAIN RunningForwards

\* Position i (0-based) is in the old list only, and index i is running.
RemovedAndRunning(i, oldConfigs, newConfigs) ==
    /\ i < Len(oldConfigs)
    /\ i >= Len(newConfigs)
    /\ i \in DOMAIN RunningForwards

\* The ReloadSync calls about to make their pass: ReloadSync(t, oldConfigs,
\* newConfigs, done) then sets the two maps and its result from
\* ReloadPass(RunningForwards, activeLocalPorts, oldConfigs, newConfigs, done).
Reloading == { t \in Callers : pc[t] = "reload_locked" /\ Mutex = t }

\* C9, as stated: ReloadSync reports every changed and running index in both
\* Stopped and Updated, and the index is not running on return.
ChangedStoppedAndUpdated ==
    \A t \in Reloading, oldConfigs \in ConfigLists, newConfigs \in NewConfigLists,
       done \in KillOutcomes, i \in Slots :
       ChangedAndRunning(i, oldConfigs, newConfigs) =>
           LET acc == ReloadPass(RunningForwards, activeLocalPorts,
                                 oldConfigs, newConfigs, done)
           IN  /\ InSeq(i, acc.result.Stopped)
               /\ InSeq(i, acc.result.Updated)
               /\ ~Exists(acc.m.rf, i)

\* C9, amended: ReloadSync sends a kill to every changed and running index,
\* reports it in Updated, and in Stopped when the kill succeeded, in Errors
\* (and not in Stopped) when the kill failed; the index is not running on
\* return and nothing is reported as Started.
ChangedStoppedOrError ==
    \A t \in Reloading, oldConfigs \in ConfigLists, newConfigs \in NewConfigLists,
       done \in KillOutcomes, i \in Slots :
       ChangedAndRunning(i, oldConfigs, newConfigs) =>
           LET acc == ReloadPass(RunningForwards, activeLocalPorts,
                                 oldConfigs, newConfigs, done)
           IN  /\ i \in acc.kills
               /\ InSeq(i, acc.result.Updated)
               /\ done[i] = Nil => /\ InSeq(i, acc.result.Stopped)
                                   /\ i \notin DOMAIN acc.result.Errors
               /\ done[i] # Nil => /\ ~InSeq(i, acc.result.Stopped)
                                   /\ i \in DOMAIN acc.result.Errors
               /\ ~Exists(acc.m.rf, i)
               /\ acc.result.Started = <<>>

\* A ReloadSync has returned with an index in both Stopped and Updated.
ChangedStoppedReached ==
    /\ returned.op = "ReloadSync"
    /\ \E i \in Slots :
          /\ InSeq(i, returned.result.Stopped)
          /\ InSeq(i, returned.result.Updated)
          /\ i \in returned.kills
          /\ ~Exists(RunningForwards, i)

\* C10: for every removed and running index, on return of ReloadSync the
\* index is not running, the local port its tunnel ran on is not reserved,
\* and the index is in Stopped.
RemovedStopped ==
    \A t \in Reloading, oldConfigs \in ConfigLists, newConfigs \in NewConfigLists,
       done \in KillOutcomes, i \in Slots :
       RemovedAndRunning(i, oldConfigs, newConfigs) =>
           LET acc == ReloadPass(RunningForwards, activeLocalPorts,
                                 oldConfigs, newConfigs, done)
           IN  /\ ~Exists(acc.m.rf, i)
               /\ ~Reserved(acc.m.alp, RunningForwards[i].localPort)
               /\ InSeq(i, acc.result.Stopped)

\* C11: ReloadSync starts nothing: whatever the lists and the kills'
\* outcomes, Started is empty, every entry of RunningForwards after the pass
\* is an entry it had before (no index becomes running, no handle is new),
\* and the pass reserves no port.
ReloadNeverStarts ==
    \A t \in Reloading, oldConfigs \in ConfigLists, newConfigs \in NewConfigLists,
       done \in KillOutcomes :
       LET acc == ReloadPass(RunningForwards, activeLocalPorts,
                             oldConfigs, newConfigs, done)
       IN  /\ acc.result.Started = <<>>
           /\ \A i \in DOMAIN acc.m.rf :
                 Exists(RunningForwards, i) /\ acc.m.rf[i] = RunningForwards[i]
           /\ DOMAIN acc.m.alp \subseteq DOMAIN activeLocalPorts

\* A ReloadSync has returned for a position that only the new list holds, and
\* the index is not running.
ReloadNeverStartsReached ==
    /\ returned.op = "ReloadSync"
    /\ returned.result.Started = <<>>
    /\ \E i \in Slots : returned.positions[i] = "added" /\ ~Exists(RunningForwards, i)

\* C12: ReloadSync(X, X) returns an empty result (no Stopped, Started, Updated,
\* Errors), sends no kill and leaves both maps as they were.
ReloadSameListIsNoOp ==
    \A t \in Reloading, X \in NewConfigLists, done \in KillOutcomes :
       LET acc == ReloadPass(RunningForwards, activeLocalPorts, X, X, done)
       IN  /\ acc.result = EmptyResult
           /\ acc.kills = {}
           /\ acc.m = Maps(RunningForwards, activeLocalPorts)

\* A ReloadSync of two equal, non-empty lists has returned an empty result
\* while a tunnel of the list is running.
ReloadSameListReached ==
    /\ returned.op = "ReloadSync"
    /\ returned.result = EmptyResult
    /\ \A i \in Slots : returned.positions[i] \in {"unchanged", "absent"}
    /\ \E i \in Slots : returned.positions[i] = "unchanged" /\ Exists(RunningForwards, i)

\* C13: for a position i that both lists hold with the same definition, the
\* pass leaves index i as it was (running or not, the same handle, the same
\* ports reserved by it), sends it no kill, and i is in none of Stopped,
\* Updated, Errors.
UnchangedUntouched ==
    \A t \in Reloading, oldConfigs \in ConfigLists, newConfigs \in NewConfigLists,
       done \in KillOutcomes, i \in Slots :
       (i < Len(oldConfigs) /\ i < Len(newConfigs)
           /\ oldConfigs[i + 1] = newConfigs[i + 1]) =>
           LET acc == ReloadPass(RunningForwards, activeLocalPorts,
                                 oldConfigs, newConfigs, done)
           IN  /\ Exists(acc.m.rf, i) <=> Exists(RunningForwards, i)
               /\ Exists(RunningForwards, i) => acc.m.rf[i] = RunningForwards[i]
               /\ \A p \in DOMAIN activeLocalPorts \cup DOMAIN acc.m.alp :
                     HeldBy(acc.m.alp, p, i) <=> HeldBy(activeLocalPorts, p, i)
               /\ i \notin acc.kills
               /\ ~InSeq(i, acc.result.Stopped)
               /\ ~InSeq(i, acc.result.Updated)
               /\ i \notin DOMAIN acc.result.Errors

\* A ReloadSync that killed another index has returned, and the index of an
\* unchanged position is still running with its reservation.
UnchangedUntouchedReached ==
    /\ returned.op = "ReloadSync"
    /\ returned.kills # {}
    /\ \E i \in Slots :
          /\ returned.positions[i] = "unchanged"
          /\ Exists(RunningForwards, i)
          /\ HeldBy(activeLocalPorts, RunningForwards[i].localPort, i)

StopDuringStart ==
    [][/\ \A t \in Callers, s \in Slots :
             (StopEnter(t, s)
                 /\ \E u \in Callers \ {t} : InFlight(u) /\ frame[u].index = s)
             => /\ returned' = Returns("Stop", s, NoConfig, Nil, {})
                /\ UNCHANGED <<RunningForwards, activeLocalPorts>>
       /\ \A u \in Callers :
             (StartOutcome(u) /\ frame[u].err = Nil /\ frame[u].cmd # NilCmd
                 /\ returned = Returns("Stop", frame[u].index, NoConfig, Nil, {}))
             => /\ Exists(RunningForwards', frame[u].index)
                /\ HeldBy(activeLocalPorts', frame[u].localPort, frame[u].index)]_vars

\* The step caller u takes next is possible now, whatever it is: any call it
\* may begin when it is idle, the next step of the call it is in otherwise.
CanProceed(u) ==
    CASE pc[u] = "idle" ->
             \A index \in Slots :
                 /\ \A cfg \in Configs : ENABLED StartEnter(u, index, cfg)
                 /\ ENABLED StopEnter(u, index)
                 /\ ENABLED IsRunning(u, index)
      [] pc[u] = "start_launch" -> \A env \in LaunchEnvs : ENABLED StartLaunch(u, env)
      [] pc[u] = "start_outcome" -> ENABLED StartOutcome(u)
      [] pc[u] = "stop_kill" -> \A killErr \in KillErrs : ENABLED StopKill(u, killErr)
      [] OTHER -> TRUE

\* C16: a caller inside the launcher does not hold the mutex, and while it is
\* there every other caller can take the next step of a Start, Stop or
\* IsRunning call, unless yet another call holds the mutex.
LaunchOutsideLock ==
    \A t \in Callers :
        pc[t] = "start_launch" =>
            /\ Mutex # t
            /\ \A u \in Callers \ {t} : Mutex \in {NoOwner, u} => CanProceed(u)

\* While one Start is inside the launcher, the Start of another index on
\* another port has been recorded and has returned nil.
LaunchOutsideLockReached ==
    \E t \in Callers :
        /\ pc[t] = "start_launch"
        /\ returned.op = "Start"
        /\ returned.ret = Nil
        /\ returned.index # frame[t].index
        /\ returned.cfg.PortLocal # frame[t].localPort
        /\ Exists(RunningForwards, returned.index)
        /\ RunningForwards[returned.index].localPort = returned.cfg.PortLocal

\* C17: no kubectl started by the supervisor runs without a handle in
\* RunningForwards or in a Start still in flight (no kill has failed when an
\* index enters orphans: it enters when its entry is overwritten).
NoOrphans == orphans = {}

\* The live processes started for index s: the one in RunningForwards, those
\* launched by a Start that has not recorded its outcome yet, an orphan.
LaunchedFor(s) ==
    { <<"running", 0>> : x \in { s } \cap DOMAIN RunningForwards }
    \cup { <<"launched", t>> :
             t \in { u \in Callers : /\ pc[u] = "start_outcome"
                                     /\ frame[u].index = s
                                     /\ frame[u].cmd # NilCmd } }
    \cup { <<"orphan", 0>> : x \in { s } \cap orphans }

\* C18: at most one live process has been started for each index.
OneProcessPerSlot == \A s \in Slots : Cardinality(LaunchedFor(s)) <= 1

\* C19: Start returns ErrLocalPortReserved only when the local port of the
\* definition is reserved by another index.
ReservedOnlyByAnother ==
    [][\A t \in Callers, index \in Slots, cfg \in Configs :
          (StartEnter(t, index, cfg) /\ returned'.ret = ErrLocalPortReserved)
          => /\ Reserved(activeLocalPorts, cfg.PortLocal)
             /\ activeLocalPorts[cfg.PortLocal] # index]_vars

\* C20: when the probe finds the local port taken, StartPortForward returns
\* ErrPortInUse and a nil handle whatever else would happen, and no process
\* is spawned.
ProbeShortCircuits ==
    [][\A t \in Callers, env \in LaunchEnvs :
          (StartLaunch(t, env) /\ env.busy)
          => /\ StartPortForward(PortForwardParams(frame[t].cfg, frame[t].localPort), env)
                  = [cmd |-> NilCmd, err |-> ErrPortInUse, alive |-> FALSE]
             /\ frame'[t].err = ErrPortInUse
             /\ frame'[t].cmd = NilCmd
             /\ UNCHANGED <<RunningForwards, orphans>>]_vars

\* A launcher has returned ErrPortInUse to its Start, with no handle.
ProbeShortCircuitsReached ==
    \E t \in Callers :
        /\ pc[t] = "start_outcome"
        /\ frame[t].err = ErrPortInUse
        /\ frame[t].cmd = NilCmd

\* C21: the launcher leaves no process behind on a failure return, and the
\* handle it returns is that of a live process: it returns one only when
\* the spawn succeeded, the process has not exited and its error stream is
\* empty at the check.
LauncherLeavesNoProcess ==
    [][\A t \in Callers, env \in LaunchEnvs :
          StartLaunch(t, env)
          => LET r == StartPortForward(PortForwardParams(frame[t].cfg, frame[t].localPort), env)
             IN  /\ frame'[t].cmd = r.cmd /\ frame'[t].err = r.err
                 /\ r.err # Nil => r.cmd = NilCmd /\ ~r.alive
                 /\ r.cmd # NilCmd
                      => env.spawnOk /\ ~env.exited /\ ~env.stderr /\ r.alive]_vars

\* C22: ReloadSync holds the lock from its first to its last access to the
\* two maps: while a caller is inside ReloadSync it owns the lock, and no
\* step taken before its pass completes changes a map or returns from a
\* Start, Stop, CleanupAll or IsRunning.
ReloadHoldsLock ==
    [][\A t \in Callers :
          pc[t] = "reload_locked"
          => /\ Mutex = t
             /\ pc'[t] = "reload_locked"
                  => /\ UNCHANGED <<RunningForwards, activeLocalPorts, Mutex>>
                     /\ returned' = NoReturn
             /\ pc'[t] # "reload_locked"
                  => returned'.op = "ReloadSync" /\ Mutex' = NoOwner]_vars

\* A pass that stopped a tunnel has returned while another caller's Start,
\* launched before the pass, waits for the lock to record its outcome.
ReloadHoldsLockReached ==
    /\ returned.op = "ReloadSync"
    /\ returned.kills # {}
    /\ \E u \in Callers : pc[u] = "start_outcome"

\* The callers that are inside a critical section spanning several steps.
HoldsLock(t) == pc[t] \in {"stop_kill", "cleanup_locked", "reload_locked"}

\* C23: lock discipline.  At most one caller holds the lock at any time, and
\* the two maps are read or changed only by a caller holding it: a step that
\* changes a map or returns from an operation is taken either with the lock
\* free for the stepping caller to take, or by the caller that owns it.
LockDiscipline ==
    [][/\ Cardinality({t \in Callers : HoldsLock(t)}) <= 1
       /\ \A t \in Callers : HoldsLock(t) <=> Mutex = t
       /\ (\/ RunningForwards' # RunningForwards
           \/ activeLocalPorts' # activeLocalPorts
           \/ returned' # NoReturn)
          => \/ Mutex = NoOwner
             \/ /\ Mutex \in Callers
                /\ pc'[Mutex] = "idle"
                /\ Mutex' = NoOwner
                /\ \A u \in Callers \ {Mutex} : pc'[u] = pc[u]]_vars

\* A Stop owns the lock while another caller's Start, its launch done, waits
\* for it.
LockDisciplineReached ==
    \E t, u \in Callers :
        /\ Mutex = t
        /\ pc[t] = "stop_kill"
        /\ pc[u] = "start_outcome"

\* C24: RestartRunningForwards stops and then restarts exactly the slots
\* running when it is called, each with the definition given for it; the
\* restart count is the number of re-starts that succeeded; every slot whose
\* stop or re-start failed is in the error map and is left not running with
\* its port unreserved.
RestartExactlyRunning ==
    [][\A t \in Callers :
        /\ \A index \in Slots, killErr \in KillErrs :
              RestartStop(t, index, killErr)
              => /\ index \in restart[t].running
                 /\ pc'[t] = "restart_launch"
                      => /\ frame'[t].cfg = restart[t].configs[index + 1]
                         /\ index \notin DOMAIN restart'[t].Errors
                 /\ pc'[t] = "restart_locked"
                      => /\ index \in DOMAIN restart'[t].Errors
                         /\ index \notin DOMAIN RunningForwards'
                         /\ index \in DOMAIN RunningForwards
                              => RunningForwards[index].localPort
                                    \notin DOMAIN activeLocalPorts'
        /\ RestartOutcome(t)
              => LET index == frame[t].index
                     cfg == restart[t].configs[index + 1]
                 IN  IF index \in DOMAIN restart'[t].Errors
                     THEN /\ index \notin restart'[t].restarted
                          /\ index \notin DOMAIN RunningForwards'
                          /\ cfg.PortLocal \notin DOMAIN activeLocalPorts'
                     ELSE /\ index \in restart'[t].restarted
                          /\ RunningForwards'[index] =
                                [cmd |-> Process(PortForwardParams(cfg, cfg.PortLocal)),
                                 localPort |-> cfg.PortLocal]
        /\ RestartReturn(t)
              => LET r == returned'.restart
                 IN  /\ r.restarted \cup DOMAIN r.Errors = r.running
                     /\ r.restarted \cap DOMAIN r.Errors = {}
                     /\ r.RestartedCount = Cardinality(r.restarted)]_vars

FailedStartReleasesOwnOnly ==
    [][\A t \in Callers :
          (StartOutcome(t) /\ (frame[t].err # Nil \/ frame[t].cmd = NilCmd))
          => LET index == frame[t].index
                 localPort == frame[t].localPort
             IN  /\ \A p \in DOMAIN activeLocalPorts :
                       (p # localPort \/ activeLocalPorts[p] # index)
                       => /\ p \in DOMAIN activeLocalPorts'
                          /\ activeLocalPorts'[p] = activeLocalPorts[p]
                 /\ HeldBy(activeLocalPorts, localPort, index)
                       => localPort \notin DOMAIN activeLocalPorts'
                 /\ DOMAIN activeLocalPorts' \subseteq DOMAIN activeLocalPorts
                 /\ returned'.ret # Nil]_vars

\* A Start has returned the error of its launch while its port was
\* reserved by another index, whose reservation is still there.
FailedStartReleasesOwnOnlyReached ==
    /\ returned.op = "Start"
    /\ returned.ret \in {ErrPortInUse, ErrStartFailed, ErrStderr}
    /\ returned.cfg.PortLocal \in DOMAIN activeLocalPorts
    /\ activeLocalPorts[returned.cfg.PortLocal] # returned.index

\* The elements of a sequence.
Range(s) == { s[k] : k \in DOMAIN s }

\* C28: in the result of a ReloadSync, Stopped and the keys of Errors are
\* disjoint and together are exactly the positions that were running and
\* whose definition changed or was removed.  A position whose kill failed
\* is in Errors and not in Stopped; it is removed from the running map all
\* the same, and the reservation it held is released.
StoppedAndErrorsPartition ==
    \A t \in Reloading, oldConfigs \in ConfigLists, newConfigs \in NewConfigLists,
       done \in KillOutcomes :
       LET acc == ReloadPass(RunningForwards, activeLocalPorts,
                             oldConfigs, newConfigs, done)
           due == { i \in Slots : /\ Exists(RunningForwards, i)
                                  /\ PositionOf(i, oldConfigs, newConfigs)
                                        \in {"changed", "removed"} }
       IN  /\ Range(acc.result.Stopped) \cap DOMAIN acc.result.Errors = {}
           /\ Range(acc.result.Stopped) \cup DOMAIN acc.result.Errors = due
           /\ Len(acc.result.Stopped) = Cardinality(Range(acc.result.Stopped))
           /\ \A i \in due :
                 /\ i \in DOMAIN acc.result.Errors <=> done[i] # Nil
                 /\ ~Exists(acc.m.rf, i)
                 /\ ~HeldBy(acc.m.alp, RunningForwards[i].localPort, i)

\* A reload has returned with one index in Stopped and another, whose kill
\* failed, in Errors; neither is running.
StoppedAndErrorsPartitionReached ==
    /\ returned.op = "ReloadSync"
    /\ returned.result.Stopped # <<>>
    /\ DOMAIN returned.result.Errors # {}
    /\ \A i \in returned.kills : ~Exists(RunningForwards, i)

\* C29: Updated is exactly the positions present in both lists whose
\* definitions differ, each listed once, whether or not the index was
\* running and whether or not its stop failed; a position in one list only
\* is never in Updated.
UpdatedExactlyChanged ==
    \A t \in Reloading, oldConfigs \in ConfigLists, newConfigs \in NewConfigLists,
       done \in KillOutcomes :
       LET acc == ReloadPass(RunningForwards, activeLocalPorts,
                             oldConfigs, newConfigs, done)
           differ == { i \in Slots : /\ i < Len(oldConfigs)
                                     /\ i < Len(newConfigs)
                                     /\ oldConfigs[i + 1] # newConfigs[i + 1] }
       IN  /\ Range(acc.result.Updated) = differ
           /\ Len(acc.result.Updated) = Cardinality(differ)
           /\ \A i \in Slots :
                 (i >= Len(oldConfigs) \/ i >= Len(newConfigs))
                 => ~InSeq(i, acc.result.Updated)

\* A reload has returned with two indices in Updated: one that was not
\* running, and one whose stop failed.
UpdatedExactlyChangedReached ==
    /\ returned.op = "ReloadSync"
    /\ \E i \in Range(returned.result.Updated) : i \notin returned.kills
    /\ \E i \in Range(returned.result.Updated) : i \in DOMAIN returned.result.Errors

\* C30: CleanupAll is best-effort and total.  It attempts a stop for every
\* index in the running map, in whatever order and whichever kills fail; it
\* reports no kill failure; and when it returns both maps are empty.
CleanupAllBestEffort ==
    [][\A t \in Callers :
          (pc[t] = "cleanup_locked" /\ pc'[t] = "idle")
          => /\ returned'.op = "CleanupAll"
             /\ returned'.ret = Nil
             /\ returned'.kills = DOMAIN RunningForwards
             /\ returned'.ignored \subseteq DOMAIN RunningForwards
             /\ RunningForwards' = EmptyMap
             /\ activeLocalPorts' = EmptyMap
             /\ \A indices \in Orders(DOMAIN RunningForwards), done \in KillOutcomes :
                   StopEach(Maps(RunningForwards, activeLocalPorts), indices, done).rf
                      = EmptyMap]_vars

\* A CleanupAll has returned after a kill of its pass failed, and both maps
\* are empty.
CleanupAllBestEffortReached ==
    /\ returned.op = "CleanupAll"
    /\ returned.ignored # {}
    /\ returned.ignored \subseteq returned.kills
    /\ RunningForwards = EmptyMap
    /\ activeLocalPorts = EmptyMap

\* C31: a configuration reload that fails changes nothing.  When the
\* reload handler returns with the store's Reload having failed, the
\* store's definitions and projects are those of before, both snapshots
\* are nil, ReloadSync was not called, no process was sent a kill, and the
\* running map and the reservation table are as they were.
FailedReloadChangesNothing ==
    [][returned'.op = "handleConfigReload" /\ returned'.ret # Nil =>
          /\ store'.configs = store.configs
          /\ store'.projects = store.projects
          /\ store'.previousConfigs = NilSlice
          /\ store'.previousProjects = NilSlice
          /\ GetPrevious(store') = <<>>
          /\ ~returned'.synced
          /\ returned'.kills = {}
          /\ RunningForwards' = RunningForwards
          /\ activeLocalPorts' = activeLocalPorts]_vars

\* A reload has failed with tunnels running and with definitions and
\* projects in the store.
FailedReloadReached ==
    /\ returned.op = "handleConfigReload"
    /\ returned.ret = ErrReload
    /\ DOMAIN RunningForwards # {}
    /\ store.configs # <<>>
    /\ store.projects # <<>>

\* C32: a running tunnel holds its own port.  Whenever no critical section
\* is in progress, for every index of RunningForwards the local port
\* recorded for it is a key of activeLocalPorts, and the value there is
\* that index.
RunningHoldsOwnPort ==
    Mutex = NoOwner =>
        \A s \in DOMAIN RunningForwards :
            HeldBy(activeLocalPorts, RunningForwards[s].localPort, s)

\* C33: at most one launch in flight for a local port.  No two callers are
\* inside the launcher at once (between Start's unlock and the launcher's
\* return) with the same local port, whatever their indices.
OneLaunchPerPort ==
    \A t, u \in Callers :
        ( /\ t # u
          /\ pc[t] = "start_launch"
          /\ pc[u] = "start_launch" )
        => frame[t].localPort # frame[u].localPort

\* C34: no stale tunnel survives a reconciliation that passes while its
\* Start is in flight.  When a Start(i, cfg) completes right after a
\* ReloadSync returned that found position i changed or removed, for lists
\* whose old definition at position i is cfg (the Start was past its launcher
\* during the pass), index i is not running the process launched for cfg.
NoStaleTunnelAfterReload ==
    [][\A u \in Callers, oldConfigs \in ConfigLists, newConfigs \in ConfigLists :
          LET i == frame[u].index
          IN  ( /\ StartOutcome(u)
                /\ returned.op = "ReloadSync"
                /\ \A s \in Slots :
                      returned.positions[s] = PositionOf(s, oldConfigs, newConfigs)
                /\ returned.positions[i] \in {"changed", "removed"}
                /\ i < Len(oldConfigs)
                /\ oldConfigs[i + 1] = frame[u].cfg )
              => ~ ( /\ Exists(RunningForwards', i)
                     /\ RunningForwards'[i].cmd =
                           Process(PortForwardParams(oldConfigs[i + 1],
                                                     oldConfigs[i + 1].PortLocal)) )]_vars

\* C35: an index holds at most one reservation.  No two different local
\* ports are keys of activeLocalPorts with the same index as their value.
OneReservationPerSlot ==
    \A p, q \in DOMAIN activeLocalPorts :
        activeLocalPorts[p] = activeLocalPorts[q] => p = q

\* The port of the running tunnel of index s is reserved by another index.
ReservedByAnother(rf, alp, s) ==
    /\ Exists(rf, s)
    /\ Reserved(alp, rf[s].localPort)
    /\ alp[rf[s].localPort] # s

\* C36: Stop(s) does not remove a reservation another index holds.  When
\* the port recorded for the running tunnel of s is reserved by another
\* index, neither step of Stop(s) changes activeLocalPorts: the reservation
\* is there with the same owner when Stop returns, and the only change to
\* the maps is that s is no longer in RunningForwards.  The same holds for
\* stopInternal.
StopKeepsOthersReservation ==
    [][/\ \A t \in Callers, s \in Slots :
             (StopEnter(t, s) /\ ReservedByAnother(RunningForwards, activeLocalPorts, s))
             => /\ activeLocalPorts' = activeLocalPorts
                /\ RunningForwards' = RunningForwards
                /\ pc'[t] = "stop_kill"
       /\ \A t \in Callers, killErr \in KillErrs :
             (StopKill(t, killErr)
                 /\ ReservedByAnother(RunningForwards, activeLocalPorts, frame[t].index))
             => /\ activeLocalPorts' = activeLocalPorts
                /\ RunningForwards' = MapDelete(RunningForwards, frame[t].index)
                /\ returned'.op = "Stop"
                /\ pc'[t] = "idle"
       /\ \A s \in Slots, killErr \in KillErrs :
             ReservedByAnother(RunningForwards, activeLocalPorts, s)
             => stopInternal(Maps(RunningForwards, activeLocalPorts), s, killErr).m
                   = Maps(MapDelete(RunningForwards, s), activeLocalPorts)]_vars

\* A Stop is about to kill a tunnel whose port another index has reserved.
StopKeepsOthersReservationReached ==
    \E t \in Callers :
        /\ pc[t] = "stop_kill"
        /\ ReservedByAnother(RunningForwards, activeLocalPorts, frame[t].index)

\* The caller that owns the lock can take its next step: it waits for
\* nothing, the lock it holds least of all.
OwnerProceeds(t) ==
    CASE pc[t] = "stop_kill" -> \A killErr \in KillErrs : ENABLED StopKill(t, killErr)
      [] pc[t] = "cleanup_locked" ->
             \A indices \in Orders(DOMAIN RunningForwards), done \in KillOutcomes :
                 ENABLED CleanupAll(t, indices, done)
      [] pc[t] = "reload_locked" ->
             \A oldConfigs \in ConfigLists, newConfigs \in ConfigLists,
                done \in KillOutcomes :
                 ENABLED ReloadSync(t, oldConfigs, newConfigs, done)
      [] OTHER -> FALSE

\* C37: deadlock freedom and termination.  With every launcher call and
\* every kill returning and the lock granted fairly, every call that has
\* begun returns, and the lock is free again and again for the calls
\* waiting to begin.  A step that returns from a call leaves the lock
\* free, no caller that is between calls or inside the launcher owns the
\* lock, and the owner of the lock is never waiting for it.
Termination ==
    /\ \A t \in Callers : (pc[t] # "idle") ~> (pc[t] = "idle")
    /\ []<>(Mutex = NoOwner)
    /\ [][returned' # NoReturn => Mutex' = NoOwner]_vars
    /\ [](\A t \in Callers :
             /\ pc[t] \in {"idle", "start_launch", "start_outcome"} => Mutex # t
             /\ Mutex = t => OwnerProceeds(t))

\* A Start, its launch done, waits for the lock a CleanupAll owns while
\* tunnels run.
TerminationReached ==
    \E t, u \in Callers :
        /\ pc[t] = "start_outcome"
        /\ pc[u] = "cleanup_locked"
        /\ Mutex = u
        /\ DOMAIN RunningForwards # {}

====
